---- MODULE Spec2Model ----
(***************************************************************************)
(* Model of src/crypto/mod.rs of jsonwebtoken: the key/algorithm           *)
(* compatibility check (validate_matching_key), the HMAC signer            *)
(* (sign_hmac) and the sign / verify dispatchers.                          *)
(*                                                                         *)
(* The functions are pure; the state machine is a caller that makes one    *)
(* call on inputs drawn from bounded sets and, when that call is a sign    *)
(* that returned a signature, presents the signature to verify, as issued  *)
(* or tampered with.                                                       *)
(*                                                                         *)
(* Texts are sequences of character codes.  A byte is a number in 0..255.  *)
(* A signature character is a base64url sextet value 0..63 (the alphabet   *)
(* A-Z a-z 0-9 - _ in order) or 64, standing for any character outside     *)
(* that alphabet.                                                          *)
(***************************************************************************)
EXTENDS Integers, Sequences, FiniteSets

\* ------------------------------------------------------------------ bounds

\* Longest message text and longest HMAC secret the caller supplies.
MaxMessageLen == 2
MaxSecretLen == 1

\* ------------------------------------------------------------------- data

\* crate::Algorithm, with Algorithm::None as added by this repository.
Algorithm ==
    {"None", "HS256", "HS384", "HS512",
     "RS256", "RS384", "RS512", "PS256", "PS384", "PS512"}

\* The bytes messages and secrets are made of ("a", "b").
TextBytes == {97, 98}

RECURSIVE SeqsUpTo(_, _)
SeqsUpTo(S, n) ==
    IF n = 0 THEN {<<>>}
    ELSE LET shorter == SeqsUpTo(S, n - 1)
         IN  shorter \cup {Append(s, b) : s \in shorter, b \in S}

Messages == SeqsUpTo(TextBytes, MaxMessageLen)
Secrets == SeqsUpTo(TextBytes, MaxSecretLen)

\* Handles of RSA key pairs.  A private key may be unusable for signing
\* (too small for the padding scheme, malformed): usable = FALSE.
RsaKeyIds == {1, 2}

\* EncodingKey: None | OctetSeq(bytes) | Rsa(private key).
EncodingKey ==
    {[variant |-> "None"]}
    \cup {[variant |-> "OctetSeq", secret |-> s] : s \in Secrets}
    \cup {[variant |-> "Rsa", id |-> i, usable |-> u] :
              i \in RsaKeyIds, u \in BOOLEAN}

\* DecodingKey: None | OctetSeq(bytes) | Rsa(public key).
DecodingKey ==
    {[variant |-> "None"]}
    \cup {[variant |-> "OctetSeq", secret |-> s] : s \in Secrets}
    \cup {[variant |-> "Rsa", id |-> i] : i \in RsaKeyIds}

\* The decoding key that corresponds to an encoding key: the same shared
\* secret, or the public half of the same RSA key pair.
DecodingKeyFor(k) ==
    CASE k.variant = "None" -> [variant |-> "None"]
      [] k.variant = "OctetSeq" -> [variant |-> "OctetSeq", secret |-> k.secret]
      [] k.variant = "Rsa" -> [variant |-> "Rsa", id |-> k.id]

\* crate::errors::Result: Ok(value) | Err(ErrorKind); a panic is a third
\* outcome of a call.
OkUnit == [kind |-> "Ok", unit |-> TRUE]
OkNone == [kind |-> "Ok", some |-> FALSE]
OkSome(text) == [kind |-> "Ok", some |-> TRUE, text |-> text]
OkBool(b) == [kind |-> "Ok", valid |-> b]
Err(e) == [kind |-> "Err", error |-> e]
Panic == [kind |-> "Panic"]

\* ------------------------------------------------------ base64url, no pad

\* crate::serialization::b64_encode: URL-safe base64 without padding.
\* Three bytes make four sextets; a final group of one byte makes two and
\* of two bytes makes three, the unused low bits being zero.
RECURSIVE b64_encode(_)
b64_encode(bytes) ==
    LET n == Len(bytes)
        s1 == bytes[1] \div 4
        s2(next) == (bytes[1] % 4) * 16 + next \div 16
        s3(next) == (bytes[2] % 16) * 4 + next \div 64
    IN  CASE n = 0 -> <<>>
          [] n = 1 -> <<s1, s2(0)>>
          [] n = 2 -> <<s1, s2(bytes[2]), s3(0)>>
          [] OTHER -> <<s1, s2(bytes[2]), s3(bytes[3]), bytes[3] % 64>>
                      \o b64_encode(SubSeq(bytes, 4, n))

RECURSIVE DecodeSextets(_)
DecodeSextets(text) ==
    LET n == Len(text)
        b1 == text[1] * 4 + text[2] \div 16
        b2 == (text[2] % 16) * 16 + text[3] \div 4
        b3 == (text[3] % 4) * 64 + text[4]
        rest == DecodeSextets(SubSeq(text, 5, n))
    IN  CASE n = 0 -> [ok |-> TRUE, bytes |-> <<>>]
          [] n = 1 -> [ok |-> FALSE, bytes |-> <<>>]
          [] n = 2 -> IF text[2] % 16 # 0
                      THEN [ok |-> FALSE, bytes |-> <<>>]
                      ELSE [ok |-> TRUE, bytes |-> <<b1>>]
          [] n = 3 -> IF text[3] % 4 # 0
                      THEN [ok |-> FALSE, bytes |-> <<>>]
                      ELSE [ok |-> TRUE, bytes |-> <<b1, b2>>]
          [] OTHER -> IF rest.ok
                      THEN [ok |-> TRUE, bytes |-> <<b1, b2, b3>> \o rest.bytes]
                      ELSE [ok |-> FALSE, bytes |-> <<>>]

\* crate::serialization::b64_decode: fails on a character outside the
\* alphabet, on a length of 1 mod 4, and on non-zero unused bits in the last
\* character.
b64_decode(text) ==
    IF \E i \in 1..Len(text) : text[i] = 64
    THEN [ok |-> FALSE, bytes |-> <<>>]
    ELSE DecodeSextets(text)

\* ------------------------------------------------------------ primitives

\* Position of a byte sequence in an enumeration of the texts over TextBytes:
\* distinct texts of the model have distinct ranks.
RECURSIVE Rank(_)
Rank(s) ==
    IF s = <<>> THEN 0 ELSE ((s[1] % 2) + 1) + 3 * Rank(Tail(s))

\* Digest length in bytes of Sha256, Sha384 and Sha512, scaled down by 16
\* (32, 48, 64): the lengths stay pairwise distinct and keep their residues
\* modulo 3, which decide the shape of the last base64 group.
OutputSize(hash) ==
    CASE hash = "Sha256" -> 2
      [] hash = "Sha384" -> 3
      [] hash = "Sha512" -> 4

\* Hmac::<D>::new_from_slice(key): a MAC state keyed with `key`.  HMAC takes
\* a key of any length, so the result is never InvalidLength.
new_from_slice(hash, key) ==
    [ok |-> TRUE, mac |-> [hash |-> hash, key |-> key, data |-> <<>>]]

\* Mac::update(data).
update(mac, data) == [mac EXCEPT !.data = mac.data \o data]

\* Mac::finalize().into_bytes(): the tag, a function of hash, key and data
\* alone, OutputSize(hash) bytes long.  The tag is idealised: distinct
\* (key, data) pairs of the model get distinct tags, as collision resistance
\* makes them in practice.
finalize(mac) ==
    LET kr == Rank(mac.key)
        dr == Rank(mac.data)
    IN  SubSeq(<<kr, dr, (kr + dr) % 256, (3 * kr + dr) % 256>>,
               1, OutputSize(mac.hash))

\* Mac::verify_slice(tag).is_ok(): the tag has the digest's length and equals
\* the recomputed one (compared in constant time).
verify_slice(mac, tag) ==
    /\ Len(tag) = OutputSize(mac.hash)
    /\ tag = finalize(mac)

\* The random salt an RSA-PSS signature draws.
Salts == {0, 1}

IsPkcs1(alg) == alg \in {"RS256", "RS384", "RS512"}

\* One byte naming the padding scheme, the hash width and the key pair.
RsaScheme(alg, id) ==
    8 * id + CASE alg = "RS256" -> 0
               [] alg = "RS384" -> 1
               [] alg = "RS512" -> 2
               [] alg = "PS256" -> 3
               [] alg = "PS384" -> 4
               [] alg = "PS512" -> 5

\* The raw RSA signature: bound to scheme, key pair, message and salt.
\* PKCS#1 v1.5 is deterministic (salt 0); PSS signs with a fresh salt.
RsaSignatureBytes(alg, id, message, salt) ==
    LET s == IF IsPkcs1(alg) THEN 0 ELSE salt
    IN  <<RsaScheme(alg, id), s, (Rank(message) + s) % 256>>

\* crypto::rsa::sign: the base64url text of the RSA signature, or the
\* delegate's own error when the private key cannot sign.
rsa_sign(alg, k, message, salt) ==
    IF ~k.usable
    THEN [ok |-> FALSE, text |-> <<>>, error |-> "InvalidRsaKey"]
    ELSE [ok |-> TRUE,
          text |-> b64_encode(RsaSignatureBytes(alg, k.id, message, salt)),
          error |-> ""]

\* crypto::rsa::verify: base64url-decodes the signature (failure is
\* InvalidSignature) and checks it against scheme, public key and message.
rsa_verify(alg, signature, message, k) ==
    LET decoded == b64_decode(signature)
        sig == decoded.bytes
    IN  IF ~decoded.ok THEN Err("InvalidSignature")
        ELSE OkBool(/\ Len(sig) = 3
                    /\ sig[1] = RsaScheme(alg, k.id)
                    /\ (IsPkcs1(alg) => sig[2] = 0)
                    /\ sig[3] = (Rank(message) + sig[2]) % 256)

\* ------------------------------------------------------- crypto/mod.rs

\* sign_hmac with the HS384 and HS512 arms keying HMAC-SHA256 (arms copied
\* from the first without changing the hash).
sign_hmac_sha256_everywhere(alg, key, message) ==
    IF alg \in {"HS256", "HS384", "HS512"}
    THEN LET r == new_from_slice("Sha256", key)
         IN  IF ~r.ok THEN Panic
             ELSE OkSome(b64_encode(finalize(update(r.mac, message))))
    ELSE Panic

\* sign_hmac: the HS signing and encoding.  Each arm keys the HMAC of its
\* own hash, feeds it the message bytes and base64url-encodes the tag; the
\* unwrap of new_from_slice panics on an error, and so does the wildcard
\* arm (unreachable!()).
sign_hmac(alg, key, message) ==
    CASE alg = "HS256" ->
             LET r == new_from_slice("Sha256", key)
             IN  IF ~r.ok THEN Panic
                 ELSE OkSome(b64_encode(finalize(update(r.mac, message))))
      [] alg = "HS384" ->
             LET r == new_from_slice("Sha384", key)
             IN  IF ~r.ok THEN Panic
                 ELSE OkSome(b64_encode(finalize(update(r.mac, message))))
      [] alg = "HS512" ->
             LET r == new_from_slice("Sha512", key)
             IN  IF ~r.ok THEN Panic
                 ELSE OkSome(b64_encode(finalize(update(r.mac, message))))
      [] OTHER -> Panic

\* validate_matching_key with PS384 missing from the Rsa arm.
validate_matching_key_without_ps384(key, algorithm) ==
    CASE key.variant = "None" ->
             IF algorithm = "None" THEN OkUnit ELSE Err("InvalidAlgorithm")
      [] key.variant = "OctetSeq" ->
             IF algorithm \in {"HS256", "HS384", "HS512"}
             THEN OkUnit
             ELSE Err("InvalidAlgorithm")
      [] key.variant = "Rsa" ->
             IF algorithm \in {"RS256", "PS256", "PS512", "RS384", "RS512"}
             THEN OkUnit
             ELSE Err("InvalidAlgorithm")

\* validate_matching_key: whether the key can be used with the algorithm.
validate_matching_key(key, algorithm) ==
    CASE key.variant = "None" ->
             IF algorithm = "None" THEN OkUnit ELSE Err("InvalidAlgorithm")
      [] key.variant = "OctetSeq" ->
             CASE algorithm = "HS256" -> OkUnit
               [] algorithm = "HS384" -> OkUnit
               [] algorithm = "HS512" -> OkUnit
               [] OTHER -> Err("InvalidAlgorithm")
      [] key.variant = "Rsa" ->
             IF algorithm \in {"RS256", "PS256", "PS384", "PS512", "RS384", "RS512"}
             THEN OkUnit
             ELSE Err("InvalidAlgorithm")

\* sign with the None arm rejecting every algorithm, Algorithm::None too.
sign_none_always_rejected(message, key, algorithm, salt) ==
    CASE key.variant = "None" -> Err("InvalidAlgorithm")
      [] key.variant = "OctetSeq" ->
             IF algorithm \in {"HS256", "HS384", "HS512"}
             THEN sign_hmac(algorithm, key.secret, message)
             ELSE Err("InvalidAlgorithm")
      [] key.variant = "Rsa" ->
             IF algorithm \in {"RS256", "RS384", "RS512", "PS256", "PS384", "PS512"}
             THEN LET r == rsa_sign(algorithm, key, message, salt)
                  IN  IF r.ok THEN OkSome(r.text) ELSE Err(r.error)
             ELSE Err("InvalidAlgorithm")

\* sign with the None arm returning Ok(None) whatever the algorithm.
sign_none_any_algorithm(message, key, algorithm, salt) ==
    CASE key.variant = "None" -> OkNone
      [] key.variant = "OctetSeq" ->
             IF algorithm \in {"HS256", "HS384", "HS512"}
             THEN sign_hmac(algorithm, key.secret, message)
             ELSE Err("InvalidAlgorithm")
      [] key.variant = "Rsa" ->
             IF algorithm \in {"RS256", "RS384", "RS512", "PS256", "PS384", "PS512"}
             THEN LET r == rsa_sign(algorithm, key, message, salt)
                  IN  IF r.ok THEN OkSome(r.text) ELSE Err(r.error)
             ELSE Err("InvalidAlgorithm")

\* sign with the OctetSeq arm handing every algorithm but None to sign_hmac.
sign_octet_seq_unchecked(message, key, algorithm, salt) ==
    CASE key.variant = "None" ->
             IF algorithm = "None" THEN OkNone ELSE Err("InvalidAlgorithm")
      [] key.variant = "OctetSeq" ->
             IF algorithm # "None"
             THEN sign_hmac(algorithm, key.secret, message)
             ELSE Err("InvalidAlgorithm")
      [] key.variant = "Rsa" ->
             IF algorithm \in {"RS256", "RS384", "RS512", "PS256", "PS384", "PS512"}
             THEN LET r == rsa_sign(algorithm, key, message, salt)
                  IN  IF r.ok THEN OkSome(r.text) ELSE Err(r.error)
             ELSE Err("InvalidAlgorithm")

\* sign: dispatch on the key variant, then on the algorithm.  `salt` is the
\* randomness the RSA delegate draws.
sign(message, key, algorithm, salt) ==
    CASE key.variant = "None" ->
             IF algorithm = "None" THEN OkNone ELSE Err("InvalidAlgorithm")
      [] key.variant = "OctetSeq" ->
             IF algorithm \in {"HS256", "HS384", "HS512"}
             THEN sign_hmac(algorithm, key.secret, message)
             ELSE Err("InvalidAlgorithm")
      [] key.variant = "Rsa" ->
             IF algorithm \in {"RS256", "RS384", "RS512", "PS256", "PS384", "PS512"}
             THEN LET r == rsa_sign(algorithm, key, message, salt)
                  IN  IF r.ok THEN OkSome(r.text) ELSE Err(r.error)
             ELSE Err("InvalidAlgorithm")

\* The HS arm reporting an undecodable signature as Ok(false).
VerifyHmacArm_decode_error_is_false(hash, secret, signature, message) ==
    LET r == new_from_slice(hash, secret)
        decoded_sig == b64_decode(signature)
    IN  IF ~r.ok THEN Panic
        ELSE IF ~decoded_sig.ok THEN OkBool(FALSE)
        ELSE OkBool(verify_slice(update(r.mac, message), decoded_sig.bytes))

\* The HS arm comparing by length only once the signature decodes.
VerifyHmacArm_length_only(hash, secret, signature, message) ==
    LET r == new_from_slice(hash, secret)
        decoded_sig == b64_decode(signature)
    IN  IF ~r.ok THEN Panic
        ELSE IF ~decoded_sig.ok THEN Err("InvalidSignature")
        ELSE OkBool(Len(decoded_sig.bytes) = OutputSize(hash))

\* One HS arm of verify: key the HMAC (unwrap), feed it the message, decode
\* the signature (a decode error becomes InvalidSignature) and compare.
VerifyHmacArm(hash, secret, signature, message) ==
    LET r == new_from_slice(hash, secret)
        decoded_sig == b64_decode(signature)
    IN  IF ~r.ok THEN Panic
        ELSE IF ~decoded_sig.ok THEN Err("InvalidSignature")
        ELSE OkBool(verify_slice(update(r.mac, message), decoded_sig.bytes))

\* verify with an OctetSeq key accepting RS256 as HMAC-SHA256 (algorithm
\* confusion).
verify_rs256_as_hmac(signature, message, key, algorithm) ==
    CASE key.variant = "None" -> Err("InvalidSignature")
      [] key.variant = "OctetSeq" ->
             CASE algorithm \in {"HS256", "RS256"} ->
                      VerifyHmacArm("Sha256", key.secret, signature, message)
               [] algorithm = "HS384" ->
                      VerifyHmacArm("Sha384", key.secret, signature, message)
               [] algorithm = "HS512" ->
                      VerifyHmacArm("Sha512", key.secret, signature, message)
               [] OTHER -> Err("InvalidAlgorithm")
      [] key.variant = "Rsa" ->
             IF algorithm \in {"RS256", "RS384", "RS512", "PS256", "PS384", "PS512"}
             THEN rsa_verify(algorithm, signature, message, key)
             ELSE Err("InvalidAlgorithm")

\* verify with the HS384 arm keying HMAC-SHA256.
verify_hs384_with_sha256(signature, message, key, algorithm) ==
    CASE key.variant = "None" -> Err("InvalidSignature")
      [] key.variant = "OctetSeq" ->
             CASE algorithm \in {"HS256", "HS384"} ->
                      VerifyHmacArm("Sha256", key.secret, signature, message)
               [] algorithm = "HS512" ->
                      VerifyHmacArm("Sha512", key.secret, signature, message)
               [] OTHER -> Err("InvalidAlgorithm")
      [] key.variant = "Rsa" ->
             IF algorithm \in {"RS256", "RS384", "RS512", "PS256", "PS384", "PS512"}
             THEN rsa_verify(algorithm, signature, message, key)
             ELSE Err("InvalidAlgorithm")

\* verify with the None arm checking the algorithm as the other arms do.
verify_none_checks_algorithm(signature, message, key, algorithm) ==
    CASE key.variant = "None" ->
             IF algorithm = "None"
             THEN Err("InvalidSignature")
             ELSE Err("InvalidAlgorithm")
      [] key.variant = "OctetSeq" ->
             CASE algorithm = "HS256" ->
                      VerifyHmacArm("Sha256", key.secret, signature, message)
               [] algorithm = "HS384" ->
                      VerifyHmacArm("Sha384", key.secret, signature, message)
               [] algorithm = "HS512" ->
                      VerifyHmacArm("Sha512", key.secret, signature, message)
               [] OTHER -> Err("InvalidAlgorithm")
      [] key.variant = "Rsa" ->
             IF algorithm \in {"RS256", "RS384", "RS512", "PS256", "PS384", "PS512"}
             THEN rsa_verify(algorithm, signature, message, key)
             ELSE Err("InvalidAlgorithm")

\* verify: dispatch on the key variant, then on the algorithm.
verify(signature, message, key, algorithm) ==
    CASE key.variant = "None" -> Err("InvalidSignature")
      [] key.variant = "OctetSeq" ->
             CASE algorithm = "HS256" ->
                      VerifyHmacArm("Sha256", key.secret, signature, message)
               [] algorithm = "HS384" ->
                      VerifyHmacArm("Sha384", key.secret, signature, message)
               [] algorithm = "HS512" ->
                      VerifyHmacArm("Sha512", key.secret, signature, message)
               [] OTHER -> Err("InvalidAlgorithm")
      [] key.variant = "Rsa" ->
             IF algorithm \in {"RS256", "RS384", "RS512", "PS256", "PS384", "PS512"}
             THEN rsa_verify(algorithm, signature, message, key)
             ELSE Err("InvalidAlgorithm")

\* ------------------------------------------------------------ the caller

\* Signature texts a caller may present that no sign call produced: empty,
\* a character outside the alphabet, an impossible length, non-zero unused
\* bits, and well-formed texts of one to four bytes.
SignatureTexts ==
    {<<>>, <<64>>, <<0, 0, 64>>, <<7>>, <<0, 1>>, <<0, 0, 1>>,
     <<0, 0>>, <<0, 0, 0>>, <<0, 0, 0, 0>>, <<0, 0, 0, 0, 0, 0>>}

NoToken == [present |-> FALSE]

VARIABLES
    op,         \* the last call: "none", "validate_matching_key", "sign", "verify"
    key,        \* its key argument
    algorithm,  \* its algorithm argument
    message,    \* its message argument (<<>> for validate_matching_key)
    signature,  \* its signature argument (<<>> unless op = "verify")
    result,     \* what it returned
    issued,     \* the signature the last sign call returned, with its inputs
    relation    \* how a verify call's inputs relate to `issued`

vars == <<op, key, algorithm, message, signature, result, issued, relation>>

Init ==
    /\ op = "none"
    /\ key = [variant |-> "None"]
    /\ algorithm = "None"
    /\ message = <<>>
    /\ signature = <<>>
    /\ result = OkUnit
    /\ issued = NoToken
    /\ relation = "none"

\* A call of validate_matching_key.
ValidateMatchingKey ==
    /\ op = "none"
    /\ \E k \in EncodingKey, a \in Algorithm :
        /\ op' = "validate_matching_key"
        /\ key' = k
        /\ algorithm' = a
        /\ message' = <<>>
        /\ signature' = <<>>
        /\ result' = validate_matching_key(k, a)
        /\ issued' = NoToken
        /\ relation' = "none"

\* A call of sign; a signature it returns is the caller's to present later.
Sign ==
    /\ op = "none"
    /\ \E m \in Messages, k \in EncodingKey, a \in Algorithm, salt \in Salts :
        LET r == sign(m, k, a, salt)
        IN  /\ op' = "sign"
            /\ key' = k
            /\ algorithm' = a
            /\ message' = m
            /\ signature' = <<>>
            /\ result' = r
            /\ issued' = IF r.kind = "Ok" /\ r.some
                         THEN [present |-> TRUE, message |-> m, key |-> k,
                               algorithm |-> a, signature |-> r.text]
                         ELSE NoToken
            /\ relation' = "none"

VerifyCall(s, m, k, a, rel) ==
    /\ op' = "verify"
    /\ key' = k
    /\ algorithm' = a
    /\ message' = m
    /\ signature' = s
    /\ result' = verify(s, m, k, a)
    /\ relation' = rel

\* A call of verify on inputs unrelated to any sign call.
Verify ==
    /\ op = "none"
    /\ \E s \in SignatureTexts, m \in Messages, k \in DecodingKey, a \in Algorithm :
        /\ VerifyCall(s, m, k, a, "none")
        /\ issued' = NoToken

\* verify on the issued signature and its message under the corresponding
\* decoding key, with the signing algorithm or any other.
VerifyIssued ==
    /\ op = "sign"
    /\ issued.present
    /\ \E a \in Algorithm :
           VerifyCall(issued.signature, issued.message,
                      DecodingKeyFor(issued.key), a,
                      IF a = issued.algorithm THEN "same" ELSE "other_algorithm")
    /\ UNCHANGED issued

\* verify on the issued signature with one character replaced.
VerifyMutatedSignature ==
    /\ op = "sign"
    /\ issued.present
    /\ \E i \in 1..Len(issued.signature), c \in 0..64 :
           /\ c # issued.signature[i]
           /\ VerifyCall([issued.signature EXCEPT ![i] = c], issued.message,
                         DecodingKeyFor(issued.key), issued.algorithm,
                         "signature_mutated")
    /\ UNCHANGED issued

\* verify on the issued signature with one byte of the message replaced.
VerifyMutatedMessage ==
    /\ op = "sign"
    /\ issued.present
    /\ \E i \in 1..Len(issued.message), b \in TextBytes :
           /\ b # issued.message[i]
           /\ VerifyCall(issued.signature, [issued.message EXCEPT ![i] = b],
                         DecodingKeyFor(issued.key), issued.algorithm,
                         "message_mutated")
    /\ UNCHANGED issued

Next ==
    \/ ValidateMatchingKey
    \/ Sign
    \/ Verify
    \/ VerifyIssued
    \/ VerifyMutatedSignature
    \/ VerifyMutatedMessage

Spec == Init /\ [][Next]_vars

\* ------------------------------------------------------------ properties

HmacAlgorithms == {"HS256", "HS384", "HS512"}
RsaAlgorithms == {"RS256", "RS384", "RS512", "PS256", "PS384", "PS512"}

\* The compatibility table as the specification states it.
CompatibilityTable(variant) ==
    CASE variant = "None" -> {"None"}
      [] variant = "OctetSeq" -> HmacAlgorithms
      [] variant = "Rsa" -> RsaAlgorithms

\* The hash each HS algorithm names.
HashNamedBy(alg) ==
    CASE alg = "HS256" -> "Sha256"
      [] alg = "HS384" -> "Sha384"
      [] alg = "HS512" -> "Sha512"

\* C1: validate_matching_key returns Ok exactly for the pairs of the
\* compatibility table and the InvalidAlgorithm error for every other pair.
C1_ValidateMatchesTable ==
    op = "validate_matching_key" =>
        IF algorithm \in CompatibilityTable(key.variant)
        THEN result = OkUnit
        ELSE result = Err("InvalidAlgorithm")

C1_Witness ==
    /\ op = "validate_matching_key"
    /\ key.variant = "Rsa"
    /\ algorithm = "PS384"
    /\ result = OkUnit

\* C2: an RSA key with an HS algorithm, or an OctetSeq key with an RS/PS
\* algorithm, makes sign and verify fail with InvalidAlgorithm, whatever the
\* message and the signature text.
C2_MismatchedFamilyRejected ==
    (/\ op \in {"sign", "verify"}
     /\ \/ key.variant = "Rsa" /\ algorithm \in HmacAlgorithms
        \/ key.variant = "OctetSeq" /\ algorithm \in RsaAlgorithms)
    => result = Err("InvalidAlgorithm")

C2_Witness ==
    /\ op = "verify"
    /\ key.variant = "OctetSeq"
    /\ algorithm = "PS256"
    /\ ~b64_decode(signature).ok
    /\ result = Err("InvalidAlgorithm")

\* C3: a signature returned by sign verifies to Ok(true) under the
\* corresponding decoding key, the same message and the same algorithm.
C3_RoundTrip ==
    (op = "verify" /\ relation = "same") => result = OkBool(TRUE)

C3_Witness ==
    /\ op = "verify"
    /\ relation = "same"
    /\ key.variant = "OctetSeq"
    /\ key.secret = <<>>
    /\ algorithm = "HS384"
    /\ message # <<>>
    /\ result = OkBool(TRUE)

\* C4: verify under DecodingKey::None fails with InvalidSignature for every
\* algorithm, signature text and message.
C4_VerifyNoneKeyRefuses ==
    (op = "verify" /\ key.variant = "None") => result = Err("InvalidSignature")

C4_Witness ==
    /\ op = "verify"
    /\ key.variant = "None"
    /\ algorithm = "HS256"
    /\ b64_decode(signature).ok
    /\ result = Err("InvalidSignature")

\* C5 as stated: with key None and Algorithm::None neither sign nor verify
\* returns an error, and sign returns Ok(None).
C5_NoneNeverFails ==
    (/\ op \in {"sign", "verify"}
     /\ key.variant = "None"
     /\ algorithm = "None")
    => /\ result.kind = "Ok"
       /\ op = "sign" => result = OkNone

\* C5 as amended: with key None and Algorithm::None sign returns Ok(None),
\* and verify returns the InvalidSignature error.
C5_NoneSignsUnsignedVerifyRefuses ==
    (key.variant = "None" /\ algorithm = "None") =>
        /\ op = "sign" => result = OkNone
        /\ op = "verify" => result.kind = "Err" /\ result.error = "InvalidSignature"

C5_Witness ==
    /\ op = "sign"
    /\ key.variant = "None"
    /\ algorithm = "None"
    /\ message # <<>>
    /\ result = OkNone
    /\ ~issued.present

\* C6: a signature text that is not valid base64 makes verify fail with
\* InvalidSignature (no panic, no Ok(false)), for an OctetSeq key with an HS
\* algorithm and for an Rsa key with an RS/PS algorithm.
C6_UndecodableSignatureIsError ==
    (/\ op = "verify"
     /\ algorithm \in CompatibilityTable(key.variant)
     /\ key.variant \in {"OctetSeq", "Rsa"}
     /\ ~b64_decode(signature).ok)
    => result = Err("InvalidSignature")

C6_Witness ==
    /\ op = "verify"
    /\ key.variant = "OctetSeq"
    /\ algorithm = "HS512"
    /\ signature = <<0, 0, 64>>
    /\ result = Err("InvalidSignature")

\* C7: verifying a signature returned by sign after replacing one character
\* of it (the text still decoding as base64) or one byte of the message
\* yields Ok(false).
C7_TamperingYieldsFalse ==
    (/\ op = "verify"
     /\ relation \in {"signature_mutated", "message_mutated"}
     /\ b64_decode(signature).ok)
    => result = OkBool(FALSE)

C7_Witness ==
    /\ op = "verify"
    /\ relation = "signature_mutated"
    /\ key.variant = "OctetSeq"
    /\ algorithm = "HS256"
    /\ b64_decode(signature).ok
    /\ result = OkBool(FALSE)

\* C8: with an OctetSeq key, sign returns base64url(hmac(hash named by the
\* algorithm, secret, message)), verify compares against the HMAC of that
\* same hash, and a signature issued under one HS algorithm verifies to
\* Ok(true) under the same secret and message only with that algorithm.
C8_NoAlgorithmSubstitution ==
    /\ (op = "sign" /\ key.variant = "OctetSeq" /\ algorithm \in HmacAlgorithms)
       => result = OkSome(b64_encode(finalize(
              [hash |-> HashNamedBy(algorithm), key |-> key.secret,
               data |-> message])))
    /\ (/\ op = "verify"
        /\ key.variant = "OctetSeq"
        /\ algorithm \in HmacAlgorithms
        /\ b64_decode(signature).ok)
       => result = OkBool(b64_decode(signature).bytes = finalize(
              [hash |-> HashNamedBy(algorithm), key |-> key.secret,
               data |-> message]))
    /\ (/\ op = "verify"
        /\ relation \in {"same", "other_algorithm"}
        /\ key.variant = "OctetSeq"
        /\ result = OkBool(TRUE))
       => algorithm = issued.algorithm

C8_Witness ==
    /\ op = "verify"
    /\ relation = "other_algorithm"
    /\ key.variant = "OctetSeq"
    /\ issued.algorithm = "HS256"
    /\ algorithm = "HS512"
    /\ result = OkBool(FALSE)

\* C9: sign returns InvalidAlgorithm exactly when validate_matching_key
\* rejects the same (key, algorithm) pair; otherwise it returns Ok(None) for
\* None/None, what sign_hmac returns for OctetSeq, and what the RSA delegate
\* returns for Rsa.
C9_SignAgreesWithValidate ==
    op = "sign" =>
        IF validate_matching_key(key, algorithm).kind = "Err"
        THEN result = Err("InvalidAlgorithm")
        ELSE /\ result # Err("InvalidAlgorithm")
             /\ key.variant = "None" => result = OkNone
             /\ key.variant = "OctetSeq" =>
                    result = sign_hmac(algorithm, key.secret, message)
             /\ key.variant = "Rsa" =>
                    IF key.usable
                    THEN result.kind = "Ok" /\ result.some
                    ELSE result = Err("InvalidRsaKey")

C9_Witness ==
    /\ op = "sign"
    /\ key.variant = "Rsa"
    /\ algorithm = "HS256"
    /\ result = Err("InvalidAlgorithm")

\* C10: sign never panics: sign_hmac is reached only with HS256, HS384 or
\* HS512, and keying the HMAC succeeds for a secret of any length, the empty
\* one included.
C10_SignNeverPanics ==
    op = "sign" =>
        /\ result # Panic
        /\ (key.variant = "OctetSeq" /\ algorithm \in HmacAlgorithms)
           => result.kind = "Ok"

C10_Witness ==
    /\ op = "sign"
    /\ key.variant = "OctetSeq"
    /\ key.secret = <<>>
    /\ algorithm = "HS512"
    /\ result.kind = "Ok"
    /\ result.some

====
